---- MODULE Spec2Model ----
(***************************************************************************)
(* Model of the short-link core of qr.ecukorea.com:                        *)
(*   src/lib/sheets-data-service.ts  (SheetsDataService)                   *)
(*   src/lib/router.ts               (Router)                              *)
(* Text is modelled as a sequence of one-character strings, so that the    *)
(* CSV parser, trim, toLowerCase and the identifier regex are computed     *)
(* character by character as the code computes them.                       *)
(***************************************************************************)
EXTENDS Integers, Sequences, FiniteSets, TLC

Null == "null"

Range(s) == {s[i] : i \in 1..Len(s)}

(***************************************************************************)
(* Characters                                                              *)
(***************************************************************************)
LowerChars == <<"a","b","c","d","e","f","g","h","i","j","k","l","m","n","o","p","q","r","s","t","u","v","w","x","y","z">>
UpperChars == <<"A","B","C","D","E","F","G","H","I","J","K","L","M","N","O","P","Q","R","S","T","U","V","W","X","Y","Z">>
DigitChars == <<"0","1","2","3","4","5","6","7","8","9">>

Alpha == Range(LowerChars) \cup Range(UpperChars)
AlphaNum == Alpha \cup Range(DigitChars)

\* the characters String.prototype.trim removes, as far as they occur here
WhiteSpace == {" ", "\t", "\n", "\r", "\f"}

\* String.prototype.toLowerCase on one character
LowerChar(c) ==
    IF c \in Range(UpperChars)
    THEN LowerChars[CHOOSE i \in 1..26 : UpperChars[i] = c]
    ELSE c

toLowerCase(s) == [i \in 1..Len(s) |-> LowerChar(s[i])]

\* String.prototype.trim
trim(s) ==
    LET nonWs == {i \in 1..Len(s) : s[i] \notin WhiteSpace}
    IN  IF nonWs = {} THEN <<>>
        ELSE LET lo == CHOOSE i \in nonWs : \A j \in nonWs : i <= j
                 hi == CHOOSE i \in nonWs : \A j \in nonWs : j <= i
             IN  SubSeq(s, lo, hi)

\* Array.prototype.indexOf, 0-based, -1 when absent
indexOf(arr, x) ==
    LET hits == {i \in 1..Len(arr) : arr[i] = x}
    IN  IF hits = {} THEN -1
        ELSE (CHOOSE i \in hits : \A j \in hits : i <= j) - 1

Max2(a, b) == IF a >= b THEN a ELSE b

(***************************************************************************)
(* new URL(url) without a base: does the string parse as an absolute URL?  *)
(* The constructor is the platform's; what is modelled is the part of the  *)
(* WHATWG parser that decides success: a scheme (letter, then letters,     *)
(* digits, + - .) ended by ':', and for the special schemes a non-empty    *)
(* host without forbidden host characters.                                 *)
(***************************************************************************)
SpecialSchemes ==
    { <<"h","t","t","p">>, <<"h","t","t","p","s">>, <<"f","t","p">>,
      <<"w","s">>, <<"w","s","s">> }

SchemeChars == AlphaNum \cup {"+", "-", "."}
ForbiddenHostChars == {" ", "<", ">", "^", "|", "[", "]", "%"}
HostEnd == {"/", "\\", "?", "#"}

RECURSIVE SkipSlashes(_)
SkipSlashes(s) ==
    IF s # <<>> /\ Head(s) \in {"/", "\\"} THEN SkipSlashes(Tail(s)) ELSE s

RECURSIVE TakeHost(_)
TakeHost(s) ==
    IF s = <<>> \/ Head(s) \in HostEnd THEN <<>>
    ELSE <<Head(s)>> \o TakeHost(Tail(s))

UrlParses(url) ==
    LET s == trim(url)
        colons == {i \in 1..Len(s) : s[i] = ":"}
    IN  /\ s # <<>>
        /\ s[1] \in Alpha
        /\ colons # {}
        /\ LET c == CHOOSE i \in colons : \A j \in colons : i <= j
               scheme == toLowerCase(SubSeq(s, 1, c - 1))
               rest == SubSeq(s, c + 1, Len(s))
               host == TakeHost(SkipSlashes(rest))
           IN  /\ \A i \in 1..(c - 1) : s[i] \in SchemeChars
               /\ scheme \in SpecialSchemes =>
                     /\ host # <<>>
                     /\ Range(host) \cap ForbiddenHostChars = {}

\* SheetsDataService.isValidUrl
isValidUrl(url) == UrlParses(url)

(***************************************************************************)
(* SheetsDataService.parseCSVRows: one pass over the characters            *)
(***************************************************************************)
someNonBlank(row) == \E k \in 1..Len(row) : trim(row[k]) # <<>>

escapedQuote_never(inQuotes, nextChar) == FALSE

\* line 253: inQuotes && nextChar === '"'
escapedQuote(inQuotes, nextChar) == inQuotes /\ nextChar = "\""

fieldSeparator_quoteBlind(char, inQuotes) == char = ","

\* line 262: char === ',' && !inQuotes
fieldSeparator(char, inQuotes) == char = "," /\ ~inQuotes

\* one turn of the while loop (lines 248-287) at index i, on the loop's
\* variables st; st.skip says that the turn before advanced i by 2, so that
\* this index is passed over
parseCSVRowsStep(csvText, i, st) ==
    IF st.skip THEN [st EXCEPT !.skip = FALSE]
    ELSE
      LET char == csvText[i]
          nextChar == IF i + 1 <= Len(csvText) THEN csvText[i + 1] ELSE Null
      IN  IF char = "\""
          THEN IF escapedQuote(st.inQuotes, nextChar)
               THEN [st EXCEPT !.currentField = Append(@, "\""), !.skip = TRUE]
               ELSE [st EXCEPT !.inQuotes = ~@]
          ELSE IF fieldSeparator(char, st.inQuotes)
          THEN [st EXCEPT !.currentRow = Append(@, st.currentField),
                          !.currentField = <<>>]
          ELSE IF char \in {"\n", "\r"} /\ ~st.inQuotes
          THEN LET doneRow == Append(st.currentRow, st.currentField)
               IN  [st EXCEPT !.rows = IF someNonBlank(doneRow)
                                       THEN Append(@, doneRow) ELSE @,
                              !.currentRow = <<>>,
                              !.currentField = <<>>,
                              !.skip = (char = "\r" /\ nextChar = "\n")]
          ELSE [st EXCEPT !.currentField = Append(@, char)]

\* the turns of the loop for the indices lo..hi, in order: those of lo..mid
\* first (the test makes their result a value before the rest is entered),
\* then those of mid+1..hi
RECURSIVE parseCSVRowsLoop(_, _, _, _)
parseCSVRowsLoop(csvText, lo, hi, st) ==
    IF lo > hi THEN st
    ELSE IF lo = hi THEN parseCSVRowsStep(csvText, lo, st)
    ELSE LET mid == (lo + hi) \div 2
             left == parseCSVRowsLoop(csvText, lo, mid, st)
         IN  IF left.skip \in BOOLEAN
             THEN parseCSVRowsLoop(csvText, mid + 1, hi, left)
             ELSE left

parseCSVRows(csvText) ==
    LET st == parseCSVRowsLoop(csvText, 1, Len(csvText),
                [rows |-> <<>>, currentRow |-> <<>>, currentField |-> <<>>,
                 inQuotes |-> FALSE, skip |-> FALSE])
        \* Add the last field and row
        lastRow == Append(st.currentRow, st.currentField)
    IN  IF someNonBlank(lastRow) THEN Append(st.rows, lastRow) ELSE st.rows

(***************************************************************************)
(* Errors: a class and a message (a sequence of words).                    *)
(***************************************************************************)
Err(cls, msg) == [cls |-> cls, msg |-> msg]

\* error instanceof C, following the class declarations
InstanceOf(e, C) ==
    CASE C = "SheetsServiceError" ->
             e.cls \in {"SheetsServiceError", "SheetsNetworkError",
                        "SheetsDataError", "SheetsAuthError"}
      [] C = "Error" -> e.cls # "NonError"
      [] OTHER -> e.cls = C

Returned(v) == [type |-> "return", value |-> v]
Thrown(e) == [type |-> "throw", error |-> e]

(***************************************************************************)
(* SheetsDataService.parseCSVData                                          *)
(***************************************************************************)
ExpectedHeaders == << <<"i","d">>, <<"t","o">>,
                      <<"d","e","s","c","r","i","p","t","i","o","n">> >>

missingRequired_orOddId(id, to) ==
    id = <<>> \/ to = <<>> \/ \E i \in 1..Len(id) : id[i] \notin AlphaNum

\* line 207: !id || !to
missingRequired(id, to) == id = <<>> \/ to = <<>>

RECURSIVE parseDataRows(_, _, _, _, _, _)
parseDataRows(rows, i, idIndex, toIndex, descriptionIndex, records) ==
    IF i > Len(rows) THEN records
    ELSE
      LET values == rows[i]
          next(recs) == parseDataRows(rows, i + 1, idIndex, toIndex,
                                      descriptionIndex, recs)
      IN  IF ~someNonBlank(values) THEN next(records)
          ELSE IF Len(values) <= Max2(idIndex, Max2(toIndex, descriptionIndex))
          THEN next(records)
          ELSE LET id == trim(values[idIndex + 1])
                   to == trim(values[toIndex + 1])
                   description == trim(values[descriptionIndex + 1])
               IN  IF missingRequired(id, to) THEN next(records)
                   ELSE IF ~isValidUrl(to) THEN next(records)
                   ELSE next(Append(records,
                          [id |-> id, to |-> to, description |-> description]))

normalizeHeader_caseSensitive(h) == trim(h)

\* line 171: h.toLowerCase().trim()
normalizeHeader(h) == trim(toLowerCase(h))

noRecords_never(records) == FALSE

\* line 229: records.length === 0
noRecords(records) == Len(records) = 0

parseCSVData(csvText) ==
    IF csvText = <<>>
    THEN Thrown(Err("SheetsDataError",
                    <<"Invalid", "CSV", "data:", "empty", "or", "non-string", "input">>))
    ELSE
      LET rows == parseCSVRows(csvText)
      IN  IF Len(rows) < 2
          THEN Thrown(Err("SheetsDataError",
                 <<"Invalid", "CSV", "data:", "must", "contain", "at", "least",
                   "header", "and", "one", "data", "row">>))
          ELSE
            LET headers == rows[1]
                normalizedHeaders ==
                    [k \in 1..Len(headers) |-> normalizeHeader(headers[k])]
                missing == {k \in 1..3 : indexOf(normalizedHeaders, ExpectedHeaders[k]) = -1}
            IN  IF missing # {}
                THEN LET k == CHOOSE m \in missing : \A n \in missing : m <= n
                     IN  Thrown(Err("SheetsDataError",
                           <<"Missing", "required", "column:",
                             <<"id", "to", "description">>[k]>>))
                ELSE
                  LET records == parseDataRows(rows, 2,
                                   indexOf(normalizedHeaders, ExpectedHeaders[1]),
                                   indexOf(normalizedHeaders, ExpectedHeaders[2]),
                                   indexOf(normalizedHeaders, ExpectedHeaders[3]),
                                   <<>>)
                  IN  IF noRecords(records)
                      THEN Thrown(Err("SheetsDataError",
                             <<"No", "valid", "records", "found", "in", "CSV", "data">>))
                      ELSE Returned(records)

(***************************************************************************)
(* Bounds and inputs                                                       *)
(***************************************************************************)
\* the clock advances in steps of TickMs, at most MaxTicks times
TickMs == 150000
MaxTicks == 7
\* ... and at most MaxFlightTicks times while one fetch is in flight
MaxFlightTicks == 1
StartTime == TickMs

CACHE_DURATION == 5 * 60 * 1000

Id_abc123 == <<"a","b","c","1","2","3">>
Id_zzzzzz == <<"z","z","z","z","z","z">>
Id_AbCd1234 == <<"A","b","C","d","1","2","3","4">>
Url_e == <<"h","t","t","p",":","/","/","e",".","k","r">>
Url_n == <<"h","t","t","p",":","/","/","n",".","k","r">>
Url_x == <<"x",":","y">>
NotAUrl == <<"e",".","k","r">>

HeaderLine == <<"i","d",",","t","o",",","d","e","s","c","r","i","p","t","i","o","n">>
Comma == <<",">>
LF == <<"\n">>
CRLF == <<"\r","\n">>

\* response bodies the sheet export can deliver
Body_two == HeaderLine \o LF \o Id_abc123 \o Comma \o Url_e \o Comma \o <<"T">> \o LF
              \o Id_AbCd1234 \o Comma \o Url_x \o Comma \o LF
Body_new == HeaderLine \o CRLF \o Id_abc123 \o Comma \o Url_n \o Comma
              \o <<"\"","N",",","\"","\"","q","\"","\"","\"">>
Body_empty == <<>>
Body_blank == <<" ", "\n">>
Body_headerOnly == HeaderLine \o LF
Body_noToColumn == <<"i","d",",","u","r","l">> \o LF \o Id_abc123 \o Comma \o Url_e
Body_allInvalid == HeaderLine \o LF \o Id_abc123 \o Comma \o NotAUrl \o Comma \o <<"T">>

Bodies == {Body_two, Body_new, Body_empty, Body_blank, Body_headerOnly,
           Body_noToColumn, Body_allInvalid}

FailStatuses == {304, 401, 403, 404, 500, 503}

StatusText(status) ==
    CASE status = 200 -> "OK"
      [] status = 304 -> "Not-Modified"
      [] status = 401 -> "Unauthorized"
      [] status = 403 -> "Forbidden"
      [] status = 404 -> "Not-Found"
      [] status = 500 -> "Internal-Server-Error"
      [] status = 503 -> "Service-Unavailable"
      [] OTHER -> ""

Response(status, body) ==
    [t |-> "response", status |-> status, statusText |-> StatusText(status),
     body |-> body, error |-> Err("", <<>>)]
Rejection(e) ==
    [t |-> "reject", status |-> 0, statusText |-> "", body |-> <<>>, error |-> e]

\* values the fetch promise can reject with
RejectValues ==
    { Err("TypeError", <<"Failed", "to", "fetch">>),
      Err("TypeError", <<"NetworkError", "when", "attempting", "to", "fetch", "resource.">>),
      Err("TypeError", <<"Load", "failed">>),
      Err("Error", <<"Network", "error">>),
      Err("NonError", <<"timeout">>) }

NetOutcomes ==
    {Response(200, b) : b \in Bodies}
      \cup {Response(st, <<>>) : st \in FailStatuses}
      \cup {Rejection(e) : e \in RejectValues}

Slash == <<"/">>
Paths == { <<>>, Slash,
           Slash \o Id_abc123, Slash \o Id_zzzzzz, Slash \o Id_AbCd1234,
           Slash \o <<"a","b","c">>,
           Slash \o <<"a","b","c","1","2">>,
           Slash \o <<"a","b","c","-","1","2","3">>,
           Slash \o <<"a","b","c","d","e","f","g","h","i">> }

LookupIds == {Id_abc123, Id_zzzzzz, Id_AbCd1234}

(***************************************************************************)
(* SheetsDataService.fetchSheetData                                        *)
(***************************************************************************)
\* cachedData: <<>> is null, <<records>> holds the array
NoCache == <<>>

IsFresh_inverted(cd, t, lft) == cd # NoCache /\ (t - lft) > CACHE_DURATION

IsFresh_noAge(cd, t, lft) == cd # NoCache

\* line 68: this.cachedData && (now - this.lastFetchTime) < this.CACHE_DURATION
IsFresh(cd, t, lft) == cd # NoCache /\ (t - lft) < CACHE_DURATION

HttpError_no404(status, statusText) ==
    LET st == <<ToString(status), statusText>>
    IN  IF status = 403
        THEN Err("SheetsAuthError", <<"Google", "Sheets", "access", "denied:">> \o st)
        ELSE IF status >= 500
        THEN Err("SheetsServiceError", <<"Google", "Sheets", "service", "error:">> \o st)
        ELSE Err("SheetsNetworkError", <<"Failed", "to", "fetch", "sheet", "data:">> \o st)

\* lines 80-91: the error thrown for a response that is not ok
HttpError(status, statusText) ==
    LET st == <<ToString(status), statusText>>
    IN  IF status = 403
        THEN Err("SheetsAuthError", <<"Google", "Sheets", "access", "denied:">> \o st)
        ELSE IF status = 404
        THEN Err("SheetsDataError", <<"Google", "Sheet", "not", "found:">> \o st)
        ELSE IF status >= 500
        THEN Err("SheetsServiceError", <<"Google", "Sheets", "service", "error:">> \o st)
        ELSE Err("SheetsNetworkError", <<"Failed", "to", "fetch", "sheet", "data:">> \o st)

ResponseOk(status) == status \in 200..299

\* lines 72-105: the try block, up to the parsed data or the thrown value
TryBlock(net) ==
    IF net.t = "reject" THEN Thrown(net.error)
    ELSE IF ~ResponseOk(net.status)
    THEN Thrown(HttpError(net.status, net.statusText))
    ELSE IF net.body = <<>> \/ Len(trim(net.body)) = 0
    THEN Thrown(Err("SheetsDataError",
                    <<"Received", "empty", "response", "from", "Google", "Sheets.">>))
    ELSE parseCSVData(net.body)

\* lines 106-129: the catch block, reading this.cachedData as it is then
CatchBlock(cd, e) ==
    IF cd # NoCache /\ (InstanceOf(e, "SheetsNetworkError")
                          \/ InstanceOf(e, "SheetsServiceError"))
    THEN Returned(cd[1])
    ELSE IF InstanceOf(e, "SheetsServiceError") THEN Thrown(e)
    ELSE IF InstanceOf(e, "TypeError") /\ "fetch" \in Range(e.msg)
    THEN Thrown(Err("SheetsNetworkError",
                    <<"Network", "error:", "Unable", "to", "connect", "to",
                      "Google", "Sheets.">>))
    ELSE IF InstanceOf(e, "Error")
    THEN Thrown(Err("SheetsServiceError",
                    <<"Google", "Sheets", "fetch", "failed:">> \o e.msg))
    ELSE Thrown(Err("SheetsServiceError",
                    <<"Unknown", "error", "occurred", "while", "fetching",
                      "Google", "Sheets", "data">>))

FetchSettle_cachesFirstOnly(cd, lft, t0, net) ==
    LET r == TryBlock(net)
    IN  IF r.type = "return"
        THEN [ret |-> r, cachedData |-> <<SubSeq(r.value, 1, 1)>>,
              lastFetchTime |-> t0]
        ELSE [ret |-> CatchBlock(cd, r.error), cachedData |-> cd,
              lastFetchTime |-> lft]

\* the records of this fetch are stored under the later of the two timestamps
FetchSettle_latestStamp(cd, lft, t0, net) ==
    LET r == TryBlock(net)
    IN  IF r.type = "return"
        THEN [ret |-> r, cachedData |-> <<r.value>>, lastFetchTime |-> Max2(lft, t0)]
        ELSE [ret |-> CatchBlock(cd, r.error), cachedData |-> cd,
              lastFetchTime |-> lft]

\* a fallback to the cached records stamps the cache as just fetched
FetchSettle_fallbackRefreshes(cd, lft, t0, net) ==
    LET r == TryBlock(net)
    IN  IF r.type = "return"
        THEN [ret |-> r, cachedData |-> <<r.value>>, lastFetchTime |-> t0]
        ELSE [ret |-> CatchBlock(cd, r.error), cachedData |-> cd,
              lastFetchTime |-> IF CatchBlock(cd, r.error).type = "return"
                                THEN t0 ELSE lft]

FetchSettle_cachesNothing(cd, lft, t0, net) ==
    LET r == TryBlock(net)
    IN  IF r.type = "return"
        THEN [ret |-> r, cachedData |-> <<<<>>>>, lastFetchTime |-> t0]
        ELSE [ret |-> CatchBlock(cd, r.error), cachedData |-> cd,
              lastFetchTime |-> lft]

\* the part of fetchSheetData after the awaits: result and cache afterwards
FetchSettle(cd, lft, t0, net) ==
    LET r == TryBlock(net)
    IN  IF r.type = "return"
        THEN [ret |-> r, cachedData |-> <<r.value>>, lastFetchTime |-> t0]
        ELSE [ret |-> CatchBlock(cd, r.error), cachedData |-> cd,
              lastFetchTime |-> lft]

\* the last record with the id instead of the first
find_lastMatch(data, id) ==
    LET hits == {i \in 1..Len(data) : data[i].id = id}
    IN  IF hits = {} THEN <<>>
        ELSE <<data[CHOOSE i \in hits : \A j \in hits : j <= i]>>

\* Array.prototype.find(record => record.id === id) || null
find(data, id) ==
    LET hits == {i \in 1..Len(data) : data[i].id = id}
    IN  IF hits = {} THEN <<>>
        ELSE <<data[CHOOSE i \in hits : \A j \in hits : i <= j]>>

\* SheetsDataService.findUrlById, given what fetchSheetData settled with
findUrlById(fetchRet, id) ==
    IF fetchRet.type = "return" THEN Returned(find(fetchRet.value, id))
    ELSE fetchRet

(***************************************************************************)
(* Router                                                                  *)
(***************************************************************************)
\* the strings handed to showError (router.ts lines 61-69 and 92); the
\* Korean sentences are written as the words of their meaning
MsgAuth == <<"no", "access", "permission;", "contact", "the", "administrator">>
MsgNetwork == <<"check", "the", "internet", "connection", "and", "try", "again">>
MsgData == <<"a", "problem", "occurred", "loading", "the", "data;", "try", "again", "shortly">>
MsgService == <<"the", "service", "has", "a", "temporary", "problem;", "try", "again", "shortly">>
MsgGeneric == <<"a", "problem", "occurred", "loading", "the", "link;", "try", "again">>
MsgInvalidDestination ==
    <<"Invalid", "destination", "URL.", "Please", "contact", "the", "link", "owner.">>

\* window.location.protocol + '//' + window.location.host
BASE_URL == <<"h","t","t","p","s",":","/","/","q","r">>

\* /^[a-zA-Z0-9]{6,8}$/ : the run of alphanumerics at the start of the string
RECURSIVE AlnumRun(_)
AlnumRun(s) ==
    IF s # <<>> /\ Head(s) \in AlphaNum THEN 1 + AlnumRun(Tail(s)) ELSE 0

isValidIdFormat_unanchored(id) == AlnumRun(id) >= 6

isValidIdFormat_upTo9(id) ==
    LET n == AlnumRun(id)
    IN  n >= 6 /\ n <= 9 /\ n = Len(id)

\* Router.isValidIdFormat
isValidIdFormat(id) ==
    LET n == AlnumRun(id)
    IN  n >= 6 /\ n <= 8 /\ n = Len(id)

Effect(op, arg) == [op |-> op, arg |-> arg]

\* the error page is shown also after the location was set
redirect_thenError(url) ==
    IF UrlParses(url)
    THEN <<Effect("redirect", url), Effect("showError", MsgInvalidDestination)>>
    ELSE <<Effect("showError", MsgInvalidDestination)>>

redirect_unchecked(url) == <<Effect("redirect", url)>>

\* Router.redirect
redirect(url) ==
    IF UrlParses(url) THEN <<Effect("redirect", url)>>
    ELSE <<Effect("showError", MsgInvalidDestination)>>

ErrorMessage_baseFirst(e) ==
    IF InstanceOf(e, "SheetsServiceError") THEN MsgService
    ELSE IF InstanceOf(e, "SheetsAuthError") THEN MsgAuth
    ELSE IF InstanceOf(e, "SheetsNetworkError") THEN MsgNetwork
    ELSE IF InstanceOf(e, "SheetsDataError") THEN MsgData
    ELSE MsgGeneric

ErrorMessage_rawFallback(e) ==
    IF InstanceOf(e, "SheetsAuthError") THEN MsgAuth
    ELSE IF InstanceOf(e, "SheetsNetworkError") THEN MsgNetwork
    ELSE IF InstanceOf(e, "SheetsDataError") THEN MsgData
    ELSE e.msg

\* lines 60-70: the message chosen for a thrown value
ErrorMessage(e) ==
    IF InstanceOf(e, "SheetsAuthError") THEN MsgAuth
    ELSE IF InstanceOf(e, "SheetsNetworkError") THEN MsgNetwork
    ELSE IF InstanceOf(e, "SheetsDataError") THEN MsgData
    ELSE IF InstanceOf(e, "SheetsServiceError") THEN MsgService
    ELSE MsgGeneric

RouteOnLookup_redirectsToId(lookup) ==
    IF lookup.type = "return"
    THEN IF lookup.value # <<>> THEN redirect(lookup.value[1].id)
         ELSE <<Effect("show404", <<>>)>>
    ELSE <<Effect("showError", ErrorMessage(lookup.error))>>

RouteOnLookup_absentIsError(lookup) ==
    IF lookup.type = "return"
    THEN IF lookup.value # <<>> THEN redirect(lookup.value[1].to)
         ELSE <<Effect("showError", MsgGeneric)>>
    ELSE <<Effect("showError", ErrorMessage(lookup.error))>>

\* lines 45-71: what handleRoute does once findUrlById has settled
RouteOnLookup(lookup) ==
    IF lookup.type = "return"
    THEN IF lookup.value # <<>> THEN redirect(lookup.value[1].to)
         ELSE <<Effect("show404", <<>>)>>
    ELSE <<Effect("showError", ErrorMessage(lookup.error))>>

AppDocument == [view |-> "app", message |-> <<>>, title |-> "app"]

\* the effect of redirect / show404 / showError on window.location.href
RECURSIVE HrefAfter(_, _)
HrefAfter(effects, h) ==
    IF effects = <<>> THEN h
    ELSE HrefAfter(Tail(effects),
                   IF Head(effects).op = "redirect" THEN Head(effects).arg ELSE h)

\* ... and on document.body / document.title
RECURSIVE DocumentAfter(_, _)
DocumentAfter(effects, d) ==
    IF effects = <<>> THEN d
    ELSE LET e == Head(effects)
         IN  DocumentAfter(Tail(effects),
               IF e.op = "show404"
               THEN [view |-> "404", message |-> <<>>,
                     title |-> "404 - Page Not Found | QR URL Shortener"]
               ELSE IF e.op = "showError"
               THEN [view |-> "error", message |-> e.arg,
                     title |-> "Error | QR URL Shortener"]
               ELSE d)

\* what a substituted data service (as in the router tests) can settle with
StubRecords ==
    { [id |-> Id_abc123, to |-> Url_e, description |-> <<"T">>],
      [id |-> Id_abc123, to |-> <<"n","o","t","-","a","-","u","r","l">>,
       description |-> <<>>] }

StubErrors ==
    { Err("SheetsAuthError", <<"403", "Forbidden">>),
      Err("SheetsNetworkError", <<"fetch", "failed">>),
      Err("SheetsDataError", <<"CSV", "parse", "error">>),
      Err("SheetsServiceError", <<"500", "Internal", "Server", "Error">>),
      Err("Error", <<"Network", "error">>),
      Err("NonError", <<"timeout">>) }

StubOutcomes ==
    {Returned(<<r>>) : r \in StubRecords} \cup {Returned(<<>>)}
      \cup {Thrown(e) : e \in StubErrors}

(***************************************************************************)
(* State                                                                   *)
(***************************************************************************)
VARIABLES
    cachedData,      \* SheetsDataService.cachedData: <<>> or <<records>>
    lastFetchTime,   \* SheetsDataService.lastFetchTime
    now,             \* Date.now()
    href,            \* window.location.href
    document,        \* document.body / document.title
    call,            \* the current (or last completed) call and what it saw
    sheet,           \* the CSV text the sheet export holds (CSV_URL, line 56)
    prev,            \* history: the call settled before the current one
    flights          \* overlapping calls: the fetches in flight, and history

vars == <<cachedData, lastFetchTime, now, href, document, call, sheet, prev, flights>>

IdleCall ==
    [pc |-> "idle", kind |-> "none", svc |-> "none", arg |-> <<>>,
     t0 |-> 0, c0 |-> NoCache, lft0 |-> 0, href0 |-> <<>>,
     net |-> <<>>, fetches |-> 0, lookupId |-> <<>>, lookup |-> <<>>,
     ret |-> <<>>, emitted |-> <<>>]

\* no call has settled yet; cleared and edited say whether clearCache was
\* called, and whether the sheet was edited, since the call in prev started
NoPrev ==
    [kind |-> "none", arg |-> <<>>, c0 |-> NoCache, net |-> <<>>,
     ret |-> <<>>, emitted |-> <<>>, cleared |-> FALSE, edited |-> FALSE]

\* no call overlaps another: pending holds, in the order they were issued,
\* the fetches in flight, each with the Date.now() of its call (line 67);
\* last holds what the call started most recently found and did, and cleared
\* says whether clearCache was called since that call started
NoFlights == [pending |-> <<>>, last |-> <<>>, cleared |-> FALSE]

Init ==
    /\ cachedData = NoCache
    /\ lastFetchTime = 0
    /\ now = StartTime
    /\ href = BASE_URL \o Slash
    /\ document = AppDocument
    /\ call = IdleCall
    /\ sheet \in Bodies
    /\ prev = NoPrev
    /\ flights = NoFlights

\* a call starts only when the previous one has settled and its caller has
\* taken the result
NoCallInFlight == call.pc = "idle"

\* time passes between calls and while a fetch is in flight
Tick ==
    /\ now < StartTime + MaxTicks * TickMs
    /\ \/ call.pc = "idle"
       \/ call.pc = "awaitFetch" /\ now < call.t0 + MaxFlightTicks * TickMs
    /\ now' = now + TickMs
    /\ UNCHANGED <<cachedData, lastFetchTime, href, document, call, sheet, prev, flights>>

\* SheetsDataService.clearCache
ClearCache ==
    /\ NoCallInFlight
    /\ cachedData' = NoCache
    /\ lastFetchTime' = 0
    /\ prev' = [prev EXCEPT !.cleared = (prev.kind # "none")]
    /\ flights' = [flights EXCEPT !.cleared = (flights.last # <<>>)]
    /\ UNCHANGED <<now, href, document, call, sheet>>

\* the record of a call that starts now
NewCall(kind, svc, arg, h) ==
    [IdleCall EXCEPT !.kind = kind, !.svc = svc, !.arg = arg, !.t0 = now,
                     !.c0 = cachedData, !.lft0 = lastFetchTime, !.href0 = h]

\* the call c has its fetchSheetData result: finish findUrlById / handleRoute
Finish(c, fetchRet) ==
    IF c.kind = "fetchSheetData"
    THEN /\ call' = [c EXCEPT !.pc = "done", !.ret = <<fetchRet>>]
         /\ UNCHANGED <<href, document>>
    ELSE IF c.kind = "findUrlById"
    THEN /\ call' = [c EXCEPT !.pc = "done",
                              !.ret = <<findUrlById(fetchRet, c.lookupId[1])>>]
         /\ UNCHANGED <<href, document>>
    ELSE LET lookup == findUrlById(fetchRet, c.lookupId[1])
             effects == RouteOnLookup(lookup)
         IN  /\ call' = [c EXCEPT !.pc = "done", !.lookup = <<lookup>>,
                                  !.ret = <<Returned(<<>>)>>,
                                  !.emitted = effects]
             /\ href' = HrefAfter(effects, c.href0)
             /\ document' = DocumentAfter(effects, AppDocument)

\* the 404 page is put up while the fetch is still in flight
EnterFetch_outcomeFirst(c) ==
    IF IsFresh(cachedData, now, lastFetchTime)
    THEN /\ Finish(c, Returned(cachedData[1]))
         /\ UNCHANGED <<cachedData, lastFetchTime, now>>
    ELSE /\ call' = [c EXCEPT !.pc = "awaitFetch", !.fetches = 1,
                              !.emitted = IF c.kind = "handleRoute"
                                          THEN <<Effect("show404", <<>>)>>
                                          ELSE <<>>]
         /\ IF c.kind = "handleRoute"
            THEN /\ href' = c.href0
                 /\ document' = DocumentAfter(<<Effect("show404", <<>>)>>, AppDocument)
            ELSE UNCHANGED <<href, document>>
         /\ UNCHANGED <<cachedData, lastFetchTime, now>>

\* lines 65-79 of fetchSheetData: serve the fresh cache or issue the fetch
EnterFetch(c) ==
    IF IsFresh(cachedData, now, lastFetchTime)
    THEN /\ Finish(c, Returned(cachedData[1]))
         /\ UNCHANGED <<cachedData, lastFetchTime, now>>
    ELSE /\ call' = [c EXCEPT !.pc = "awaitFetch", !.fetches = 1]
         /\ IF c.kind = "handleRoute"
            THEN href' = c.href0 /\ document' = AppDocument
            ELSE UNCHANGED <<href, document>>
         /\ UNCHANGED <<cachedData, lastFetchTime, now>>

CallFetchSheetData ==
    /\ NoCallInFlight
    /\ UNCHANGED <<sheet, prev, flights>>
    /\ EnterFetch(NewCall("fetchSheetData", "real", <<>>, href))

CallFindUrlById(id) ==
    /\ NoCallInFlight
    /\ UNCHANGED <<sheet, prev, flights>>
    /\ EnterFetch([NewCall("findUrlById", "real", id, href) EXCEPT !.lookupId = <<id>>])

pathIsRoot_slashOnly(path) == path = Slash

\* the test of router.ts line 32: path === '/' || path === ''
pathIsRoot(path) == path = Slash \/ path = <<>>

\* the page is loaded at `path` and Router.handleRoute runs (lines 24-47);
\* svc says whether the router holds the real data service or a substitute
CallHandleRoute(path, svc) ==
    /\ NoCallInFlight
    /\ UNCHANGED <<sheet, prev, flights>>
    /\ LET c == NewCall("handleRoute", svc, path, BASE_URL \o path)
           id == SubSeq(path, 2, Len(path))
       IN  IF pathIsRoot(path)
           THEN /\ call' = [c EXCEPT !.pc = "done", !.ret = <<Returned(<<>>)>>]
                /\ href' = c.href0
                /\ document' = AppDocument
                /\ UNCHANGED <<cachedData, lastFetchTime, now>>
           ELSE IF ~isValidIdFormat(id)
           THEN LET effects == <<Effect("show404", <<>>)>>
                IN  /\ call' = [c EXCEPT !.pc = "done", !.ret = <<Returned(<<>>)>>,
                                         !.emitted = effects]
                    /\ href' = HrefAfter(effects, c.href0)
                    /\ document' = DocumentAfter(effects, AppDocument)
                    /\ UNCHANGED <<cachedData, lastFetchTime, now>>
           ELSE IF svc = "real"
           THEN EnterFetch([c EXCEPT !.lookupId = <<id>>])
           ELSE /\ call' = [c EXCEPT !.pc = "awaitStub", !.lookupId = <<id>>]
                /\ href' = c.href0
                /\ document' = AppDocument
                /\ UNCHANGED <<cachedData, lastFetchTime, now>>

\* the people who keep the spreadsheet edit it between two calls
SheetEdited(body) ==
    /\ NoCallInFlight
    /\ body # sheet
    /\ sheet' = body
    /\ prev' = [prev EXCEPT !.edited = (prev.kind # "none")]
    /\ UNCHANGED <<cachedData, lastFetchTime, now, href, document, call, flights>>

\* the network settles the fetch in flight (lines 80-129), and the callers
\* awaiting fetchSheetData continue; an OK response carries the sheet's text
FetchSettles(net) ==
    /\ call.pc = "awaitFetch"
    /\ ResponseOk(net.status) => net.body = sheet
    /\ LET s == FetchSettle(cachedData, lastFetchTime, call.t0, net)
       IN  /\ cachedData' = s.cachedData
           /\ lastFetchTime' = s.lastFetchTime
           /\ Finish([call EXCEPT !.net = <<net>>], s.ret)
    /\ UNCHANGED <<now, sheet, prev, flights>>

\* the substituted findUrlById settles
StubSettles(out) ==
    /\ call.pc = "awaitStub"
    /\ LET effects == RouteOnLookup(out)
       IN  /\ call' = [call EXCEPT !.pc = "done", !.lookup = <<out>>,
                                   !.ret = <<Returned(<<>>)>>,
                                   !.emitted = effects]
           /\ href' = HrefAfter(effects, call.href0)
           /\ document' = DocumentAfter(effects, AppDocument)
    /\ UNCHANGED <<cachedData, lastFetchTime, now, sheet, prev, flights>>

\* the caller of the settled call takes its result, and the window is back
\* at the application's root page for the next navigation (the link on the
\* 404 and error pages, lines 270 and 419); the data service stays
Resume ==
    /\ call.pc = "done"
    /\ call' = IdleCall
    /\ href' = BASE_URL \o Slash
    /\ document' = AppDocument
    /\ UNCHANGED <<cachedData, lastFetchTime, now, sheet, prev, flights>>

Next ==
    \/ Tick
    \/ Resume
    \/ ClearCache
    \/ \E body \in Bodies : SheetEdited(body)
    \/ CallFetchSheetData
    \/ \E id \in LookupIds : CallFindUrlById(id)
    \/ \E path \in Paths : CallHandleRoute(path, "real")
    \/ \E path \in Paths : CallHandleRoute(path, "stub")
    \/ \E net \in NetOutcomes : FetchSettles(net)
    \/ \E out \in StubOutcomes : StubSettles(out)

Spec == Init /\ [][Next]_vars

\* the same program, every fetch in flight settling in the end: a call
\* awaiting fetch() or the substituted findUrlById is resumed once the promise
\* settles, and the promise is assumed to settle
SpecLive ==
    /\ Init /\ [][Next]_vars
    /\ WF_vars(\E net \in NetOutcomes : FetchSettles(net))
    /\ WF_vars(\E out \in StubOutcomes : StubSettles(out))

TypeOK ==
    /\ call.pc \in {"idle", "awaitFetch", "awaitStub", "done"}
    /\ lastFetchTime <= now

(***************************************************************************)
(* Calls in succession: when its caller takes the result, the settled call *)
(* is kept in prev for the next call to be compared with                   *)
(***************************************************************************)
\* the clock advances at most MaxTwiceTicks times
MaxTwiceTicks == 3

TwiceBodies == {Body_two, Body_new}
TwicePaths == { Slash \o Id_abc123, Slash \o Id_AbCd1234,
                Slash \o <<"a","b","c","1","2">> }
TwiceIds == {Id_abc123, Id_AbCd1234}
TwiceNet ==
    {Response(200, body) : body \in TwiceBodies}
      \cup { Response(500, <<>>),
              Rejection(Err("TypeError", <<"Failed", "to", "fetch">>)) }

InitTwice ==
    /\ Init
    /\ sheet \in TwiceBodies

TickTwice ==
    /\ now < StartTime + MaxTwiceTicks * TickMs
    /\ Tick

ResumeKeeping ==
    /\ call.pc = "done"
    /\ prev' = [kind |-> call.kind, arg |-> call.arg, c0 |-> call.c0,
                net |-> call.net, ret |-> call.ret, emitted |-> call.emitted,
                cleared |-> FALSE, edited |-> FALSE]
    /\ call' = IdleCall
    /\ href' = BASE_URL \o Slash
    /\ document' = AppDocument
    /\ UNCHANGED <<cachedData, lastFetchTime, now, sheet, flights>>

NextTwice ==
    \/ TickTwice
    \/ ResumeKeeping
    \/ ClearCache
    \/ \E body \in TwiceBodies : SheetEdited(body)
    \/ \E id \in TwiceIds : CallFindUrlById(id)
    \/ \E path \in TwicePaths : CallHandleRoute(path, "real")
    \/ \E net \in TwiceNet : FetchSettles(net)

SpecTwice == InitTwice /\ [][NextTwice]_vars

(***************************************************************************)
(* Overlapping calls: fetchSheetData / findUrlById are async, so a call    *)
(* can start, and clearCache can run, while the fetches of earlier calls   *)
(* are in flight; each continues after its await when its fetch settles    *)
(***************************************************************************)
\* at most MaxFlights fetches are in flight at once
MaxFlights == 2
\* the clock advances at most MaxConcTicks times
MaxConcTicks == 2

ConcBodies == {Body_two, Body_new}
ConcKinds == {"fetchSheetData", "findUrlById"}
ConcNet == {Response(200, body) : body \in ConcBodies} \cup {Response(500, <<>>)}

InitConc ==
    /\ Init
    /\ sheet \in ConcBodies

ConcTick ==
    /\ now < StartTime + MaxConcTicks * TickMs
    /\ Tick

\* a call that finds a request in flight waits for it instead of fetching
IssuesRequest_singleFlight(cd, t, lft, inFlight) ==
    ~IsFresh(cd, t, lft) /\ inFlight = 0

\* lines 67-72: the call goes to the network unless the cache is fresh; the
\* service keeps no record of the requests in flight and consults none
IssuesRequest(cd, t, lft, inFlight) == ~IsFresh(cd, t, lft)

RemoveAt(seq, i) == SubSeq(seq, 1, i - 1) \o SubSeq(seq, i + 1, Len(seq))

\* a fetchSheetData call (on its own or from findUrlById) runs up to its
\* first await: it returns the fresh cache, or issues a fetch of its own
ConcStart(kind) ==
    /\ LET inFlight == Len(flights.pending)
           issues == IssuesRequest(cachedData, now, lastFetchTime, inFlight)
       IN  /\ issues => inFlight < MaxFlights
           /\ flights' =
                 [pending |-> IF issues
                              THEN Append(flights.pending, [t0 |-> now])
                              ELSE flights.pending,
                  last |-> <<[kind |-> kind, t0 |-> now,
                              hadCache |-> cachedData # NoCache,
                              lft0 |-> lastFetchTime,
                              inFlight0 |-> inFlight,
                              afterClear |-> flights.cleared,
                              fetched |-> issues]>>,
                  cleared |-> FALSE]
    /\ UNCHANGED <<cachedData, lastFetchTime, now, href, document, call, sheet, prev>>

\* the i-th fetch in flight settles and its call runs lines 80-129
ConcSettle(i, net) ==
    /\ i \in 1..Len(flights.pending)
    /\ ResponseOk(net.status) => net.body = sheet
    /\ LET s == FetchSettle(cachedData, lastFetchTime, flights.pending[i].t0, net)
       IN  /\ cachedData' = s.cachedData
           /\ lastFetchTime' = s.lastFetchTime
    /\ flights' = [flights EXCEPT !.pending = RemoveAt(@, i)]
    /\ UNCHANGED <<now, href, document, call, sheet, prev>>

NextConc ==
    \/ ConcTick
    \/ ClearCache
    \/ \E body \in ConcBodies : SheetEdited(body)
    \/ \E kind \in ConcKinds : ConcStart(kind)
    \/ \E i \in 1..MaxFlights, net \in ConcNet : ConcSettle(i, net)

SpecConc == InitConc /\ [][NextConc]_vars

(***************************************************************************)
(* Sheets written as CSV text: the inputs of parseCSVData                  *)
(***************************************************************************)
\* a written sheet has at most MaxRows data rows (and one sheet of five)
MaxRows == 2

Id_hyphen == <<"a","b","c","-","1","2","3">>
Desc_T == <<"T">>
Desc_special == <<"N", ",", "\"", "q", "\"", "\n", "x">>
Desc_padded == <<" ", "d">>

Rec(id, to, description) == [id |-> id, to |-> to, description |-> description]

GivenRecords ==
    { Rec(Id_abc123, Url_e, Desc_T),
      Rec(Id_AbCd1234, Url_x, <<>>),
      Rec(Id_zzzzzz, Url_n, Desc_special),
      Rec(Id_abc123, Url_n, Desc_padded),
      Rec(Id_zzzzzz, <<>>, Desc_T),
      Rec(<<>>, Url_e, Desc_T),
      Rec(Id_hyphen, Url_n, <<"N">>),
      Rec(Id_abc123, NotAUrl, <<>>) }

\* five data rows: two with an empty `to`, one with a non-alphanumeric id
FiveRows ==
    << Rec(Id_abc123, Url_e, Desc_T),
       Rec(Id_zzzzzz, <<>>, Desc_T),
       Rec(Id_hyphen, Url_n, <<"N">>),
       Rec(Id_AbCd1234, <<>>, <<>>),
       Rec(Id_AbCd1234, Url_x, <<>>) >>

SeqsUpTo(S, n) == UNION {[1..k -> S] : k \in 0..n}

Columns == {"id", "to", "description"}
ColumnOrders ==
    {o \in [1..3 -> Columns] : \A i, j \in 1..3 : o[i] = o[j] => i = j}
Casings == {"lower", "upper", "mixed"}

HeaderName(col, casing) ==
    CASE col = "id" ->
           (CASE casing = "lower" -> <<"i","d">>
              [] casing = "upper" -> <<"I","D">>
              [] OTHER -> <<"I","d">>)
      [] col = "to" ->
           (CASE casing = "lower" -> <<"t","o">>
              [] casing = "upper" -> <<"T","O">>
              [] OTHER -> <<"t","O">>)
      [] OTHER ->
           (CASE casing = "lower" -> <<"d","e","s","c","r","i","p","t","i","o","n">>
              [] casing = "upper" -> <<"D","E","S","C","R","I","P","T","I","O","N">>
              [] OTHER -> <<"D","e","s","c","r","i","p","t","i","o","n">>)

CanonicalOrder == <<"id", "to", "description">>

\* how a sheet is laid out: column order, header casing, and whether the
\* writer quotes every field or only the fields that need it
Layouts ==
    {[order |-> o, casing |-> c, quoteAll |-> FALSE] :
        o \in ColumnOrders, c \in Casings}
      \cup {[order |-> CanonicalOrder, casing |-> "lower", quoteAll |-> TRUE]}

Tables ==
    {[layout |-> l, rows |-> rs] :
        l \in Layouts, rs \in SeqsUpTo(GivenRecords, MaxRows)}
      \cup {[layout |-> [order |-> CanonicalOrder, casing |-> "lower",
                         quoteAll |-> FALSE],
             rows |-> FiveRows]}

\* the CSV writer (RFC 4180): a field holding a separator, a quote or a line
\* break is enclosed in quotes, and its quotes are doubled
RECURSIVE DoubleQuotes(_)
DoubleQuotes(v) ==
    IF v = <<>> THEN <<>>
    ELSE (IF Head(v) = "\"" THEN <<"\"", "\"">> ELSE <<Head(v)>>)
           \o DoubleQuotes(Tail(v))

NeedsQuotes(v) == \E i \in 1..Len(v) : v[i] \in {",", "\"", "\n", "\r"}

csvField(v, quoteAll) ==
    IF quoteAll \/ NeedsQuotes(v)
    THEN <<"\"">> \o DoubleQuotes(v) \o <<"\"">>
    ELSE v

csvLine(fields) == fields[1] \o Comma \o fields[2] \o Comma \o fields[3]

RECURSIVE csvLines(_, _)
csvLines(layout, rows) ==
    IF rows = <<>> THEN <<>>
    ELSE csvLine([k \in 1..3 |->
                    csvField(Head(rows)[layout.order[k]], layout.quoteAll)])
           \o LF \o csvLines(layout, Tail(rows))

csvText(table) ==
    csvLine([k \in 1..3 |-> HeaderName(table.layout.order[k], table.layout.casing)])
      \o LF \o csvLines(table.layout, table.rows)

(***************************************************************************)
(* parseCSVData, and fetchSheetData on an empty cache, applied to a        *)
(* written sheet; call.arg keeps the table the sheet was written from      *)
(***************************************************************************)
InitCsv ==
    /\ cachedData = NoCache
    /\ lastFetchTime = 0
    /\ now = StartTime
    /\ href = BASE_URL \o Slash
    /\ document = AppDocument
    /\ \E table \in Tables :
          /\ sheet = csvText(table)
          /\ call = [IdleCall EXCEPT !.arg = table]
    /\ prev = NoPrev
    /\ flights = NoFlights

ApplyParseCSVData ==
    /\ NoCallInFlight
    /\ call' = [call EXCEPT !.pc = "done", !.kind = "parseCSVData",
                            !.svc = "real", !.t0 = now,
                            !.ret = <<parseCSVData(sheet)>>]
    /\ UNCHANGED <<cachedData, lastFetchTime, now, href, document, sheet, prev, flights>>

ApplyFetchSheetData ==
    /\ NoCallInFlight
    /\ ~IsFresh(cachedData, now, lastFetchTime)
    /\ LET net == Response(200, sheet)
           s == FetchSettle(cachedData, lastFetchTime, now, net)
       IN  /\ cachedData' = s.cachedData
           /\ lastFetchTime' = s.lastFetchTime
           /\ call' = [call EXCEPT !.pc = "done", !.kind = "fetchSheetData",
                                   !.svc = "real", !.t0 = now,
                                   !.net = <<net>>, !.fetches = 1,
                                   !.ret = <<s.ret>>]
    /\ UNCHANGED <<now, href, document, sheet, prev, flights>>

NextCsv ==
    \/ ApplyParseCSVData
    \/ ApplyFetchSheetData

SpecCsv == InitCsv /\ [][NextCsv]_vars

(***************************************************************************)
(* findUrlById on an empty cache, the sheet a written table in the         *)
(* canonical layout                                                        *)
(***************************************************************************)
\* ids looked up in the written table: one in either case, one absent from
\* most tables
Id_ABC123 == <<"A","B","C","1","2","3">>
FindIds == {Id_abc123, Id_ABC123, Id_zzzzzz}

FindTables ==
    {[layout |-> [order |-> CanonicalOrder, casing |-> "lower", quoteAll |-> FALSE],
      rows |-> rs] : rs \in SeqsUpTo(GivenRecords, MaxRows)}

InitFind ==
    /\ cachedData = NoCache
    /\ lastFetchTime = 0
    /\ now = StartTime
    /\ href = BASE_URL \o Slash
    /\ document = AppDocument
    /\ \E table \in FindTables :
          /\ sheet = csvText(table)
          /\ call = [IdleCall EXCEPT !.arg = table]
    /\ prev = NoPrev
    /\ flights = NoFlights

\* findUrlById(id), the sheet answering with status 200
ApplyFindUrlById(id) ==
    /\ NoCallInFlight
    /\ ~IsFresh(cachedData, now, lastFetchTime)
    /\ LET net == Response(200, sheet)
           s == FetchSettle(cachedData, lastFetchTime, now, net)
       IN  /\ cachedData' = s.cachedData
           /\ lastFetchTime' = s.lastFetchTime
           /\ call' = [call EXCEPT !.pc = "done", !.kind = "findUrlById",
                                   !.svc = "real", !.t0 = now,
                                   !.net = <<net>>, !.fetches = 1,
                                   !.lookupId = <<id>>,
                                   !.ret = <<findUrlById(s.ret, id)>>]
    /\ UNCHANGED <<now, href, document, sheet, prev, flights>>

NextFind == \E id \in FindIds : ApplyFindUrlById(id)

SpecFind == InitFind /\ [][NextFind]_vars

(***************************************************************************)
(* parseCSVRows applied to a text with one quoted field                    *)
(***************************************************************************)
\* the quoted field holds at most MaxContentLen characters
MaxContentLen == 3

ContentChars == {"x", ",", "\"", "\n", "\r", " "}
Contents == SeqsUpTo(ContentChars, MaxContentLen)

\* two rows: a,"<content>",b and c
QuotedRow(content) ==
    <<"a">> \o Comma \o csvField(content, TRUE) \o Comma \o <<"b">> \o LF \o <<"c">>

InitRows ==
    /\ cachedData = NoCache
    /\ lastFetchTime = 0
    /\ now = StartTime
    /\ href = BASE_URL \o Slash
    /\ document = AppDocument
    /\ \E content \in Contents :
          /\ sheet = QuotedRow(content)
          /\ call = [IdleCall EXCEPT !.arg = content]
    /\ prev = NoPrev
    /\ flights = NoFlights

ApplyParseCSVRows ==
    /\ NoCallInFlight
    /\ call' = [call EXCEPT !.pc = "done", !.kind = "parseCSVRows",
                            !.svc = "real", !.t0 = now,
                            !.ret = <<Returned(parseCSVRows(sheet))>>]
    /\ UNCHANGED <<cachedData, lastFetchTime, now, href, document, sheet, prev, flights>>

NextRows == ApplyParseCSVRows

SpecRows == InitRows /\ [][NextRows]_vars

(***************************************************************************)
(* parseCSVRows applied to any short text                                  *)
(***************************************************************************)
\* the text holds at most MaxRawLen characters
MaxRawLen == 4

RawChars == {"x", ",", "\"", "\n"}
RawTexts == SeqsUpTo(RawChars, MaxRawLen)

InitRaw ==
    /\ cachedData = NoCache
    /\ lastFetchTime = 0
    /\ now = StartTime
    /\ href = BASE_URL \o Slash
    /\ document = AppDocument
    /\ sheet \in RawTexts
    /\ call = IdleCall
    /\ prev = NoPrev
    /\ flights = NoFlights

NextRaw == ApplyParseCSVRows

SpecRaw == InitRaw /\ [][NextRaw]_vars

(***************************************************************************)
(* Router.isValidIdFormat applied to an identifier                         *)
(***************************************************************************)
\* identifiers of at most MaxIdLen characters
MaxIdLen == 9

IdChars == {"a", "B", "7"}
Separators == {"-", "_", " ", ".", "/", "\n"}
IdPattern(n) == [i \in 1..n |-> <<"a", "B", "7">>[(i % 3) + 1]]

IdInputs ==
    SeqsUpTo(IdChars, MaxIdLen)
      \cup UNION {{[IdPattern(n) EXCEPT ![k] = c] : k \in 1..n, c \in Separators} :
                    n \in 1..MaxIdLen}

InitId ==
    /\ cachedData = NoCache
    /\ lastFetchTime = 0
    /\ now = StartTime
    /\ href = BASE_URL \o Slash
    /\ document = AppDocument
    /\ sheet = Body_two
    /\ \E id \in IdInputs : call = [IdleCall EXCEPT !.arg = id]
    /\ prev = NoPrev
    /\ flights = NoFlights

ApplyIsValidIdFormat ==
    /\ NoCallInFlight
    /\ call' = [call EXCEPT !.pc = "done", !.kind = "isValidIdFormat",
                            !.svc = "real", !.t0 = now,
                            !.ret = <<Returned(isValidIdFormat(call.arg))>>]
    /\ UNCHANGED <<cachedData, lastFetchTime, now, href, document, sheet, prev, flights>>

NextId == ApplyIsValidIdFormat

SpecId == InitId /\ [][NextId]_vars

(***************************************************************************)
(* Vocabulary of the properties                                            *)
(***************************************************************************)
Done == call.pc = "done"
DoneService == Done /\ call.svc = "real" /\ call.kind \in {"fetchSheetData", "findUrlById"}
DoneFetch == Done /\ call.kind = "fetchSheetData"
DoneRoute == Done /\ call.kind = "handleRoute"

\* the age of the cache entry when the call started
Age0 == call.t0 - call.lft0

\* the stale ceiling of the reference policy: 15 minutes
StaleCeiling == 15 * 60 * 1000

HadCache == call.c0 # NoCache
WasFresh == HadCache /\ Age0 < CACHE_DURATION
WasStale == HadCache /\ Age0 >= CACHE_DURATION /\ Age0 < StaleCeiling
WasExpired == HadCache /\ Age0 >= StaleCeiling

Blank(text) == \A i \in 1..Len(text) : text[i] \in {" ", "\t", "\n", "\r"}

\* the kind of failure of a settled fetch, by the taxonomy of the data
\* fetcher: "none" when the fetch delivered records
FailureKind(net) ==
    IF net.t = "reject" THEN "network"
    ELSE IF net.status = 403 THEN "auth"
    ELSE IF net.status = 404 THEN "data"
    ELSE IF net.status >= 500 THEN "service"
    ELSE IF net.status < 200 \/ net.status > 299 THEN "network"
    ELSE IF Blank(net.body) THEN "data"
    ELSE IF parseCSVData(net.body).type = "throw" THEN "data"
    ELSE "none"

KindClass(kind) ==
    CASE kind = "auth" -> "SheetsAuthError"
      [] kind = "data" -> "SheetsDataError"
      [] kind = "network" -> "SheetsNetworkError"
      [] kind = "service" -> "SheetsServiceError"

Fetched == call.net # <<>>
FetchFailed == Fetched /\ FailureKind(call.net[1]) # "none"

\* the first record of the set with the given id, if any
FirstMatch(data, id) ==
    IF \E i \in 1..Len(data) : data[i].id = id
    THEN <<data[CHOOSE i \in 1..Len(data) :
                  /\ data[i].id = id
                  /\ \A j \in 1..(i - 1) : data[j].id # id]>>
    ELSE <<>>

\* ^[a-zA-Z0-9]{6,8}$
WellFormedId(id) ==
    /\ Len(id) \in 6..8
    /\ \A i \in 1..Len(id) : id[i] \in AlphaNum

PathId == SubSeq(call.arg, 2, Len(call.arg))
RootPath == call.arg = <<>> \/ call.arg = <<"/">>

Show404Only == <<Effect("show404", <<>>)>>
ShowErrorOnly(m) == <<Effect("showError", m)>>
RedirectOnly(u) == <<Effect("redirect", u)>>

LookupThrew == call.lookup # <<>> /\ call.lookup[1].type = "throw"
LookupFound == /\ call.lookup # <<>>
               /\ call.lookup[1].type = "return"
               /\ call.lookup[1].value # <<>>
FoundRecord == call.lookup[1].value[1]

(***************************************************************************)
(* C1: when the cache holds records younger than the 5-minute fresh        *)
(* duration, fetchSheetData returns the cached records, findUrlById        *)
(* answers from them, and no network fetch is issued.                      *)
(***************************************************************************)
C1_FreshCacheNoFetch ==
    (DoneService /\ WasFresh) =>
        /\ call.fetches = 0
        /\ ~Fetched
        /\ call.kind = "fetchSheetData" => call.ret = <<Returned(call.c0[1])>>
        /\ call.kind = "findUrlById" =>
              call.ret = <<Returned(FirstMatch(call.c0[1], call.arg))>>
        /\ cachedData = call.c0
        /\ lastFetchTime = call.lft0

C1_Witness ==
    /\ DoneFetch /\ WasFresh /\ Age0 > 0
    /\ call.fetches = 0
    /\ call.ret = <<Returned(call.c0[1])>>

(***************************************************************************)
(* C2: with a stale (not fresh, not expired) cache, a refresh that fails   *)
(* with a network error or a generic service error makes fetchSheetData    *)
(* return the cached records instead of throwing, for every failure of     *)
(* those two kinds.                                                        *)
(***************************************************************************)
C2_StaleFallbackOnNetworkOrService ==
    (DoneFetch /\ WasStale /\ Fetched
       /\ FailureKind(call.net[1]) \in {"network", "service"}) =>
        call.ret = <<Returned(call.c0[1])>>

(***************************************************************************)
(* C3: a refresh failure of the auth kind or of the data kind always       *)
(* propagates to the caller of fetchSheetData, also when cached records    *)
(* exist; cached records never stand in for an auth or data error.         *)
(***************************************************************************)
C3_AuthAndDataErrorsPropagate ==
    (DoneFetch /\ Fetched /\ FailureKind(call.net[1]) \in {"auth", "data"}) =>
        /\ call.ret[1].type = "throw"
        /\ call.ret[1].error.cls = KindClass(FailureKind(call.net[1]))

C5_HttpFailuresClassified ==
    (DoneFetch /\ ~HadCache /\ Fetched /\ call.net[1].t = "response"
       /\ (call.net[1].status \notin 200..299 \/ Blank(call.net[1].body))) =>
        LET st == call.net[1].status
            cls == IF st = 403 THEN "SheetsAuthError"
                   ELSE IF st = 404 THEN "SheetsDataError"
                   ELSE IF st >= 500 THEN "SheetsServiceError"
                   ELSE IF st \notin 200..299 THEN "SheetsNetworkError"
                   ELSE "SheetsDataError"
        IN  /\ call.ret[1].type = "throw"
            /\ call.ret[1].error.cls = cls
            /\ cachedData = NoCache
            /\ lastFetchTime = call.lft0

C5_Witness ==
    /\ DoneFetch /\ ~HadCache /\ Fetched
    /\ call.net[1].t = "response" /\ call.net[1].status = 304
    /\ call.ret[1].type = "throw"
    /\ call.ret[1].error.cls = "SheetsNetworkError"
    /\ cachedData = NoCache

(***************************************************************************)
(* C6: for a non-root path whose id does not match ^[a-zA-Z0-9]{6,8}$      *)
(* handleRoute shows the 404 page and never calls findUrlById; findUrlById *)
(* is only ever called by the router with an id of that format.            *)
(***************************************************************************)
C6_MalformedIdNotFoundNoLookup ==
    /\ (DoneRoute /\ ~RootPath /\ ~WellFormedId(PathId)) =>
          /\ call.emitted = Show404Only
          /\ document.view = "404"
          /\ call.lookupId = <<>>
          /\ call.lookup = <<>>
          /\ call.fetches = 0
    /\ (call.kind = "handleRoute" /\ call.lookupId # <<>>) =>
          WellFormedId(call.lookupId[1])

C6_Witness ==
    /\ DoneRoute
    /\ call.arg = <<"/","a","b","c","d","e","f","g","h","i">>
    /\ call.emitted = Show404Only
    /\ call.lookupId = <<>>

(***************************************************************************)
(* C7: when the id is well-formed and findUrlById returns a record whose   *)
(* destination URL-parses, handleRoute redirects to exactly the record's   *)
(* `to`, and neither the 404 page nor an error is shown.                   *)
(***************************************************************************)
C7_FoundRecordRedirects ==
    (DoneRoute /\ LookupFound /\ UrlParses(FoundRecord.to)) =>
        /\ call.emitted = RedirectOnly(FoundRecord.to)
        /\ href = FoundRecord.to
        /\ document = AppDocument

C7_Witness ==
    /\ DoneRoute /\ call.svc = "real" /\ LookupFound
    /\ call.arg = Slash \o Id_abc123
    /\ FoundRecord.to = Url_n
    /\ href = Url_n

(***************************************************************************)
(* C8: when the lookup throws, handleRoute shows exactly one message,      *)
(* chosen by the kind of error: auth - permission denied, network -        *)
(* connectivity, data - data processing, generic service - temporary       *)
(* service problem, anything else - the generic fallback; the 404 page is  *)
(* not shown.                                                              *)
(***************************************************************************)
MessageFor(cls) ==
    CASE cls = "SheetsAuthError" -> MsgAuth
      [] cls = "SheetsNetworkError" -> MsgNetwork
      [] cls = "SheetsDataError" -> MsgData
      [] cls = "SheetsServiceError" -> MsgService
      [] OTHER -> MsgGeneric

C8_MessageByErrorKind ==
    (DoneRoute /\ LookupThrew) =>
        /\ call.emitted = ShowErrorOnly(MessageFor(call.lookup[1].error.cls))
        /\ document.view = "error"
        /\ document.message = MessageFor(call.lookup[1].error.cls)

C8_Witness ==
    /\ DoneRoute /\ LookupThrew
    /\ call.lookup[1].error.cls = "Error"
    /\ call.emitted = ShowErrorOnly(MsgGeneric)

(***************************************************************************)
(* C9: handleRoute never re-throws: whatever the lookup throws, the call   *)
(* returns, one of the fixed user-facing messages is shown, and that       *)
(* message contains neither the text of the exception nor an HTTP status   *)
(* code.                                                                   *)
(***************************************************************************)
FixedMessages == {MsgAuth, MsgNetwork, MsgData, MsgService, MsgGeneric}

StatusCodeWords == {ToString(n) : n \in 100..599}

\* needle occurs in hay as a run of consecutive words
Contains(hay, needle) ==
    \E i \in 0..(Len(hay) - Len(needle)) :
        \A k \in 1..Len(needle) : hay[i + k] = needle[k]

C9_NoRethrowFixedMessage ==
    /\ DoneRoute => call.ret = <<Returned(<<>>)>>
    /\ (DoneRoute /\ LookupThrew) =>
          /\ Len(call.emitted) = 1
          /\ call.emitted[1].op = "showError"
          /\ call.emitted[1].arg \in FixedMessages
          /\ Range(call.emitted[1].arg) \cap StatusCodeWords = {}
          /\ ~Contains(call.emitted[1].arg, call.lookup[1].error.msg)
          /\ document.message = call.emitted[1].arg

C9_Witness ==
    /\ DoneRoute /\ call.svc = "real" /\ LookupThrew
    /\ "500" \in Range(call.lookup[1].error.msg)
    /\ call.ret = <<Returned(<<>>)>>
    /\ call.emitted = ShowErrorOnly(MsgService)

(***************************************************************************)
(* C10: when a record is found whose destination does not URL-parse,       *)
(* handleRoute shows the invalid-destination message and performs no       *)
(* redirect: the location stays as it was.                                 *)
(***************************************************************************)
C10_UnparsableDestinationIsError ==
    (DoneRoute /\ LookupFound /\ ~UrlParses(FoundRecord.to)) =>
        /\ call.emitted = ShowErrorOnly(MsgInvalidDestination)
        /\ href = call.href0
        /\ document.view = "error"
        /\ document.message = MsgInvalidDestination

C10_Witness ==
    /\ DoneRoute /\ LookupFound /\ ~UrlParses(FoundRecord.to)
    /\ call.emitted = ShowErrorOnly(MsgInvalidDestination)
    /\ href = BASE_URL \o Slash \o Id_abc123

(***************************************************************************)
(* C11: for the path "/" or "" Router.handleRoute is a no-op: the data     *)
(* service is not called (no lookup, no fetch), nothing is redirected, no  *)
(* 404 page and no error page is shown, and the cache is left as it was.   *)
(***************************************************************************)
C11_RootPathIsNoOp ==
    (DoneRoute /\ RootPath) =>
        /\ call.emitted = <<>>
        /\ call.lookupId = <<>>
        /\ call.lookup = <<>>
        /\ call.fetches = 0
        /\ href = call.href0
        /\ document.view = "app"
        /\ cachedData = call.c0
        /\ lastFetchTime = call.lft0

C11_Witness ==
    /\ DoneRoute
    /\ call.arg = <<>>
    /\ call.svc = "real"
    /\ HadCache /\ WasStale
    /\ call.emitted = <<>>
    /\ cachedData = call.c0

(***************************************************************************)
(* C12: a malformed identifier, and a well-formed identifier absent from   *)
(* a successfully obtained record set, both end handleRoute in the same    *)
(* observable outcome: the 404 page alone, the same document whatever the  *)
(* identifier, no error message, no redirect.                              *)
(***************************************************************************)
NotFoundPage ==
    [view |-> "404", message |-> <<>>,
     title |-> "404 - Page Not Found | QR URL Shortener"]

Malformed == DoneRoute /\ ~RootPath /\ ~WellFormedId(PathId)

Absent ==
    /\ DoneRoute /\ ~RootPath /\ WellFormedId(PathId)
    /\ call.lookup # <<>>
    /\ call.lookup[1].type = "return"
    /\ call.lookup[1].value = <<>>

C12_MalformedAndAbsentIndistinguishable ==
    (Malformed \/ Absent) =>
        /\ call.emitted = Show404Only
        /\ document = NotFoundPage
        /\ href = call.href0

C12_Witness ==
    /\ Absent
    /\ call.svc = "real"
    /\ call.fetches = 1
    /\ PathId = Id_zzzzzz
    /\ document = NotFoundPage

(***************************************************************************)
(* Vocabulary of the properties of two calls in succession                 *)
(***************************************************************************)
TwoRoutes ==
    /\ DoneRoute
    /\ prev.kind = "handleRoute"
    /\ prev.arg = call.arg

TwoFinds ==
    /\ Done /\ call.kind = "findUrlById"
    /\ prev.kind = "findUrlById"
    /\ prev.arg = call.arg

SheetUnchanged == ~prev.edited
NoFailure(net) == net = <<>> \/ FailureKind(net[1]) = "none"
NoFetchFailed == NoFailure(prev.net) /\ NoFailure(call.net)
\* the cache entry the first call found, if any, held the sheet's records
CacheWasCurrent ==
    \/ prev.c0 = NoCache
    \/ /\ parseCSVData(sheet).type = "return"
       /\ prev.c0 = <<parseCSVData(sheet).value>>

DoneParse == Done /\ call.kind = "parseCSVData"
GivenRows == call.arg.rows
GivenLayout == call.arg.layout

EmptyTo(r) == r.to = <<>>
AlnumId(r) == r.id # <<>> /\ \A i \in 1..Len(r.id) : r.id[i] \in AlphaNum
NoPadding(v) == v = <<>> \/ (v[1] \notin WhiteSpace /\ v[Len(v)] \notin WhiteSpace)
\* a row as the claims call it well-formed
WellFormedRow(r) ==
    /\ WellFormedId(r.id)
    /\ r.to # <<>> /\ NoPadding(r.to) /\ UrlParses(r.to)
    /\ NoPadding(r.description)
\* a row the validator keeps
Complete(r) ==
    /\ \E i \in 1..Len(r.id) : r.id[i] \notin WhiteSpace
    /\ \E i \in 1..Len(r.to) : r.to[i] \notin WhiteSpace
    /\ UrlParses(r.to)
Unpadded(v) ==
    IF \A i \in 1..Len(v) : v[i] \in WhiteSpace THEN <<>>
    ELSE LET ink == {i \in 1..Len(v) : v[i] \notin WhiteSpace}
         IN  SubSeq(v, CHOOSE i \in ink : \A j \in ink : i <= j,
                       CHOOSE i \in ink : \A j \in ink : j <= i)
AsRead(r) == Rec(Unpadded(r.id), Unpadded(r.to), Unpadded(r.description))

NoValidRecords ==
    Err("SheetsDataError", <<"No", "valid", "records", "found", "in", "CSV", "data">>)

(***************************************************************************)
(* C15 as stated: parseCSVData drops, without raising, every data row      *)
(* whose `to` is empty and every data row whose `id` is not alphanumeric,  *)
(* and returns exactly the remaining well-formed rows in order; five rows  *)
(* with two empty `to` and one non-alphanumeric id give two records.       *)
(***************************************************************************)
C15_Original ==
    (/\ DoneParse
     /\ \A i \in 1..Len(GivenRows) :
           EmptyTo(GivenRows[i]) \/ ~AlnumId(GivenRows[i]) \/ WellFormedRow(GivenRows[i])
     /\ \E i \in 1..Len(GivenRows) : WellFormedRow(GivenRows[i]))
    => call.ret = <<Returned(SelectSeq(GivenRows, WellFormedRow))>>

(***************************************************************************)
(* C15 as the code has it: parseCSVData drops, without raising, every data *)
(* row whose `id` or `to` is empty after trimming or whose `to` does not   *)
(* URL-parse, and returns exactly the remaining rows, trimmed, in order;   *)
(* the characters of the id are not checked, so five rows with two empty   *)
(* `to` and one non-alphanumeric id give three records.                    *)
(***************************************************************************)
C15_DropsIncompleteRowsOnly ==
    /\ (DoneParse /\ \E i \in 1..Len(GivenRows) : Complete(GivenRows[i]))
          => call.ret =
               <<Returned([i \in 1..Len(SelectSeq(GivenRows, Complete)) |->
                             AsRead(SelectSeq(GivenRows, Complete)[i])])>>
    /\ (DoneParse /\ GivenRows = FiveRows)
          => /\ call.ret[1].type = "return"
             /\ Len(call.ret[1].value) = 3

C15_Witness ==
    /\ DoneParse
    /\ GivenRows = FiveRows
    /\ call.ret = <<Returned(<<FiveRows[1], FiveRows[3], FiveRows[5]>>)>>

(***************************************************************************)
(* C16: when no data row survives validation parseCSVData raises a data    *)
(* error; it never returns an empty list, and the cache never holds an     *)
(* empty record set (after a fetch of such a sheet it holds what it held). *)
(***************************************************************************)
C16_NoRecordsIsDataError ==
    /\ cachedData # <<<<>>>>
    /\ (Done /\ call.kind \in {"parseCSVData", "fetchSheetData"}) =>
          /\ call.ret[1] # Returned(<<>>)
          /\ (\A i \in 1..Len(GivenRows) : ~Complete(GivenRows[i])) =>
                /\ call.ret[1].type = "throw"
                /\ call.ret[1].error.cls = "SheetsDataError"
                /\ cachedData = call.c0
          /\ (Len(GivenRows) > 0 /\ \A i \in 1..Len(GivenRows) : ~Complete(GivenRows[i]))
                => call.ret[1] = Thrown(NoValidRecords)

C16_Witness ==
    /\ DoneFetch
    /\ Len(GivenRows) = 2
    /\ \A i \in 1..Len(GivenRows) : ~Complete(GivenRows[i])
    /\ call.ret = <<Thrown(NoValidRecords)>>
    /\ cachedData = NoCache

(***************************************************************************)
(* C17: the records parseCSVData returns do not depend on the order or the *)
(* letter case of the header columns: whatever the permutation of the      *)
(* columns (header and data rows alike) and the casing of the header       *)
(* names, the result is that of the sheet laid out as id,to,description.   *)
(***************************************************************************)
C17_ColumnOrderAndCaseIrrelevant ==
    DoneParse =>
        call.ret =
          <<parseCSVData(csvText(
              [call.arg EXCEPT !.layout.order = CanonicalOrder,
                               !.layout.casing = "lower"]))>>

C17_Witness ==
    /\ DoneParse
    /\ GivenLayout.order = <<"description", "to", "id">>
    /\ GivenLayout.casing = "mixed"
    /\ call.ret = <<Returned(<<Rec(Id_zzzzzz, Url_n, Desc_special),
                               Rec(Id_abc123, Url_e, Desc_T)>>)>>

(***************************************************************************)
(* C18: in the CSV parser a quoted field may contain commas and newlines   *)
(* without ending the field or the row, "" inside it yields one literal    *)
(* quote, and the enclosing quotes are not part of the value: the text     *)
(* a,"<content>",b / c  parses to the rows (a, content, b) and (c).        *)
(***************************************************************************)
DoneRows == Done /\ call.kind = "parseCSVRows"

C18_QuotedFieldKeepsSeparators ==
    DoneRows =>
        call.ret = <<Returned(<< << <<"a">>, call.arg, <<"b">> >>, << <<"c">> >> >>)>>

C18_Witness ==
    /\ DoneRows
    /\ call.arg = <<",", "\"", "\n">>
    /\ sheet = <<"a", ",", "\"", ",", "\"", "\"", "\n", "\"", ",", "b", "\n", "c">>
    /\ call.ret[1].value[1][2] = <<",", "\"", "\n">>

(***************************************************************************)
(* C19 as stated: for any record set of N well-formed records (valid id,   *)
(* parseable destination, arbitrary description), writing it as CSV with   *)
(* quoting under the header id,to,description and passing the text to      *)
(* parseCSVData yields the same N records, field for field.                *)
(***************************************************************************)
WrittenCanonically ==
    /\ DoneParse
    /\ GivenLayout.order = CanonicalOrder
    /\ GivenLayout.casing = "lower"
    /\ Len(GivenRows) >= 1

ValidIdAndDestination(r) == WellFormedId(r.id) /\ r.to # <<>> /\ UrlParses(r.to)

C19_Original ==
    (WrittenCanonically
       /\ \A i \in 1..Len(GivenRows) : ValidIdAndDestination(GivenRows[i]))
    => call.ret = <<Returned(GivenRows)>>

(***************************************************************************)
(* C19 as the code has it: the round trip yields the same N >= 1 records   *)
(* when no field carries leading or trailing whitespace; in general the    *)
(* description comes back trimmed, embedded commas, quotes and newlines    *)
(* kept.                                                                   *)
(***************************************************************************)
C19_RoundTripUpToTrimming ==
    /\ (WrittenCanonically
          /\ \A i \in 1..Len(GivenRows) : WellFormedRow(GivenRows[i]))
       => call.ret = <<Returned(GivenRows)>>
    /\ (WrittenCanonically
          /\ \A i \in 1..Len(GivenRows) : ValidIdAndDestination(GivenRows[i]))
       => call.ret = <<Returned([i \in 1..Len(GivenRows) |->
                                   [GivenRows[i] EXCEPT !.description = Unpadded(@)]])>>

C19_Witness ==
    /\ WrittenCanonically
    /\ ~GivenLayout.quoteAll
    /\ GivenRows = <<Rec(Id_zzzzzz, Url_n, Desc_special), Rec(Id_abc123, Url_e, Desc_T)>>
    /\ call.ret = <<Returned(GivenRows)>>

(***************************************************************************)
(* C20: the identifier format check accepts a string if and only if it is  *)
(* 6 to 8 ASCII alphanumeric characters: lengths 5 and 9 are rejected,     *)
(* lengths 6 and 8 with mixed case and digits are accepted, and a string   *)
(* with a hyphen, underscore, space or other separator is rejected.        *)
(***************************************************************************)
DoneId == Done /\ call.kind = "isValidIdFormat"
Accepted == call.ret = <<Returned(TRUE)>>
Rejected == call.ret = <<Returned(FALSE)>>

C20_IdFormatExact ==
    DoneId =>
        /\ Accepted \/ Rejected
        /\ Accepted <=> WellFormedId(call.arg)
        /\ Len(call.arg) \in {5, 9} => Rejected
        /\ (\E i \in 1..Len(call.arg) : call.arg[i] \in Separators) => Rejected
        /\ (Len(call.arg) \in {6, 8} /\ \A i \in 1..Len(call.arg) : call.arg[i] \in IdChars)
              => Accepted

C20_Witness ==
    /\ DoneId
    /\ call.arg = <<"a", "B", "7", "7", "B", "a", "a", "B">>
    /\ Accepted
(***************************************************************************)
(* C21: findUrlById(id) returns the first record, in record-set order,     *)
(* whose id equals the argument exactly (case-sensitive); it returns null, *)
(* not an error, when the lookup succeeded and no record has that id; when *)
(* several records share the id the first one wins.                        *)
(***************************************************************************)
DoneFind == Done /\ call.kind = "findUrlById"
\* the record set of the sheet: the rows the validator keeps, as read
RecordSet ==
    [i \in 1..Len(SelectSeq(GivenRows, Complete)) |->
        AsRead(SelectSeq(GivenRows, Complete)[i])]
SharedId(data, id) ==
    \E i, j \in 1..Len(data) : i # j /\ data[i].id = id /\ data[j].id = id
SameLetters(a, b) == toLowerCase(a) = toLowerCase(b)

C21_FirstMatchExactId ==
    (DoneFind /\ RecordSet # <<>>) =>
        /\ call.ret = <<Returned(FirstMatch(RecordSet, call.lookupId[1]))>>
        /\ (\A i \in 1..Len(RecordSet) : RecordSet[i].id # call.lookupId[1])
              => call.ret = <<Returned(<<>>)>>

\* two records share the looked-up id and differ, and the first was returned;
\* (the same run of the model also looks up the id in the other case)
C21_Witness ==
    /\ DoneFind
    /\ SharedId(RecordSet, call.lookupId[1])
    /\ RecordSet[1] # RecordSet[2]
    /\ call.ret = <<Returned(<<RecordSet[1]>>)>>

\* an id differing only in case from a record's id was looked up: null
C21_CaseWitness ==
    /\ DoneFind
    /\ \E i \in 1..Len(RecordSet) :
          /\ SameLetters(RecordSet[i].id, call.lookupId[1])
          /\ RecordSet[i].id # call.lookupId[1]
    /\ call.ret = <<Returned(<<>>)>>

(***************************************************************************)
(* C26: every transport-level failure of the fetch (the fetch promise      *)
(* rejects instead of yielding an HTTP response) surfaces from             *)
(* fetchSheetData as a network error, whatever the rejection value is.     *)
(* (Stated for an empty cache, where no fallback can stand in.)            *)
(***************************************************************************)
FetchRejected == Fetched /\ call.net[1].t = "reject"

C26_RejectionIsNetworkError ==
    (DoneFetch /\ ~HadCache /\ FetchRejected) =>
        /\ call.ret[1].type = "throw"
        /\ call.ret[1].error.cls = "SheetsNetworkError"

(***************************************************************************)
(* C29: a failed fetchSheetData call, whether it throws or falls back to   *)
(* the cached records, leaves cachedData and lastFetchTime exactly as they *)
(* were before the call; a fallback does not make the cache fresh again,   *)
(* so the next call attempts the network again.                            *)
(***************************************************************************)
PrevFetchFailed == prev.net # <<>> /\ FailureKind(prev.net[1]) # "none"
\* the previous call was answered from the cache after its fetch failed
PrevFellBack ==
    /\ PrevFetchFailed
    /\ prev.kind = "findUrlById"
    /\ prev.ret[1].type = "return"

C29_FailedFetchLeavesCacheAsItWas ==
    /\ (Done /\ call.svc = "real" /\ FetchFailed) =>
          /\ cachedData = call.c0
          /\ lastFetchTime = call.lft0
    /\ (Done /\ call.kind = "findUrlById" /\ PrevFetchFailed) =>
          call.fetches = 1

\* a lookup right after one that fell back to the cached records, nothing
\* cleared in between, fetched again
C29_Witness ==
    /\ Done /\ call.kind = "findUrlById"
    /\ PrevFellBack /\ ~prev.cleared
    /\ HadCache
    /\ call.fetches = 1

(***************************************************************************)
(* C30: each Router.handleRoute invocation emits at most one terminal      *)
(* outcome: at most one of redirect (location changed), show404 and        *)
(* showError takes effect per navigation, and a navigation that redirected *)
(* shows neither a 404 nor an error.                                       *)
(***************************************************************************)
Redirected == href # call.href0
C30_AtMostOneOutcome ==
    DoneRoute =>
        /\ Len(call.emitted) <= 1
        /\ Redirected => (call.emitted = RedirectOnly(href) /\ document = AppDocument)
        /\ document.view # "app" => (~Redirected /\ Len(call.emitted) = 1)

\* a found record with a destination that does not parse: the error page
\* alone, the location untouched
C30_Witness ==
    /\ DoneRoute /\ LookupFound
    /\ ~UrlParses(FoundRecord.to)
    /\ call.emitted = ShowErrorOnly(MsgInvalidDestination)
    /\ ~Redirected /\ document.view = "error"

(***************************************************************************)
(* C25: in the CSV parser a quote character opens a quoted field only when *)
(* it is the first character of the field; a quote appearing later in an   *)
(* unquoted field does not switch the parser into quoted mode, so a comma  *)
(* or newline after it still ends the field or row.  Stated on texts in    *)
(* which no field starts with a quote: the rows and fields are those cut   *)
(* at every newline and comma (quotes themselves left out of account).     *)
(***************************************************************************)
NoFieldStartsWithQuote(text) ==
    \A i \in 1..Len(text) :
        text[i] = "\"" => (i > 1 /\ text[i - 1] \notin {",", "\n"})

RECURSIVE SplitAt(_, _)
SplitAt(text, sep) ==
    IF \A i \in 1..Len(text) : text[i] # sep THEN <<text>>
    ELSE LET k == CHOOSE i \in 1..Len(text) :
                     text[i] = sep /\ \A j \in 1..(i - 1) : text[j] # sep
         IN  <<SubSeq(text, 1, k - 1)>> \o SplitAt(SubSeq(text, k + 1, Len(text)), sep)

IsNotQuote(c) == c # "\""
WithoutQuotes(rows) ==
    [r \in 1..Len(rows) |->
        [f \in 1..Len(rows[r]) |-> SelectSeq(rows[r][f], IsNotQuote)]]
\* every line cut at its commas, the lines with nothing in them left out
CutAtEverySeparator(text) ==
    LET lines == SplitAt(text, "\n")
        cut == [l \in 1..Len(lines) |-> SplitAt(lines[l], ",")]
    IN  SelectSeq(cut, someNonBlank)

C25_QuoteOpensOnlyAtFieldStart ==
    (DoneRows /\ NoFieldStartsWithQuote(sheet)) =>
        WithoutQuotes(call.ret[1].value) = WithoutQuotes(CutAtEverySeparator(sheet))

(***************************************************************************)
(* C28: every Router.handleRoute invocation follows Idle, Extracting, then *)
(* NoOp, NotFound or LookingUp, then Redirecting, NotFound or Erroring in  *)
(* strict sequence, and eventually reaches a terminal outcome provided the *)
(* network fetch eventually settles; no outcome (redirect, 404, error) is  *)
(* emitted before the lookup has settled.  (Extracting has no await in it: *)
(* it is passed within the step that starts the navigation.)               *)
(***************************************************************************)
Phase(c) ==
    IF c.kind # "handleRoute" THEN "Idle"
    ELSE IF c.pc \in {"awaitFetch", "awaitStub"} THEN "LookingUp"
    ELSE IF c.emitted = <<>> THEN "NoOp"
    ELSE IF c.emitted[1].op = "redirect" THEN "Redirecting"
    ELSE IF c.emitted[1].op = "show404" THEN "NotFound"
    ELSE "Erroring"

LookingUp == Phase(call) = "LookingUp"
Terminal == DoneRoute

PhaseStep ==
    LET p == Phase(call)
        q == Phase(call')
    IN  \/ call' = call
        \/ p = "Idle" /\ q = "Idle"
        \* extraction decides without a lookup, or the lookup starts
        \/ /\ p = "Idle" /\ q \in {"NoOp", "NotFound", "LookingUp"}
           /\ call'.lookup = <<>>
        \* the lookup is answered from the fresh cache, nothing to wait for
        \/ /\ p = "Idle" /\ q \in {"Redirecting", "NotFound", "Erroring"}
           /\ call'.lookup # <<>> /\ call'.fetches = 0
        \/ /\ p = "LookingUp" /\ q \in {"Redirecting", "NotFound", "Erroring"}
           /\ call'.lookup # <<>>
        \/ /\ p \in {"NoOp", "NotFound", "Redirecting", "Erroring"}
           /\ call.pc = "done" /\ q = "Idle"

NothingBeforeLookupSettled ==
    /\ LookingUp =>
          /\ call.emitted = <<>> /\ call.lookup = <<>>
          /\ href = call.href0 /\ document = AppDocument
    /\ (call.kind = "handleRoute" /\ call.emitted # <<>> /\ WellFormedId(PathId))
          => call.lookup # <<>>

C28_StrictSequenceThenOutcome ==
    /\ [][PhaseStep]_vars
    /\ []NothingBeforeLookupSettled
    /\ (LookingUp ~> Terminal)

\* a navigation that waited for the fetch and then redirected
C28_Witness ==
    /\ DoneRoute /\ call.fetches = 1
    /\ call.lookup # <<>>
    /\ Phase(call) = "Redirecting"

(***************************************************************************)
(* Overlapping calls: the vocabulary of the claims                         *)
(***************************************************************************)
Started == flights.last # <<>>
LastCall == flights.last[1]
InFlight == Len(flights.pending)
\* the cache as the call started most recently found it
LastFoundFresh ==
    LastCall.hadCache /\ LastCall.t0 - LastCall.lft0 < CACHE_DURATION
CacheCleared == cachedData = NoCache /\ lastFetchTime = 0

(***************************************************************************)
(* C22: after clearCache returns, the next fetchSheetData or findUrlById   *)
(* call performs a network fetch, in every interleaving, including the one *)
(* where a fetch started before the clear completes after it.              *)
(***************************************************************************)
C22_NextCallAfterClearFetches ==
    (Started /\ LastCall.afterClear) => LastCall.fetched

(***************************************************************************)
(* C23: under any interleaving of overlapping asynchronous fetchSheetData, *)
(* findUrlById and clearCache calls a reader of the cache never observes a *)
(* half-written entry: the cached record set is always either absent or    *)
(* exactly the complete validated result of one single successful fetch,   *)
(* never a merge of two fetches and never records paired with the          *)
(* timestamp of a different fetch.                                         *)
(***************************************************************************)
\* the complete validated result of a fetch answered with the given body
ResultOf(body) == <<parseCSVData(body).value>>

\* every step leaves the entry alone, clears both fields, or stores the whole
\* result of one fetch in flight together with the timestamp of that fetch
EntryStep ==
    \/ UNCHANGED <<cachedData, lastFetchTime>>
    \/ CacheCleared'
    \/ \E i \in 1..InFlight :
          /\ parseCSVData(sheet).type = "return"
          /\ cachedData' = ResultOf(sheet)
          /\ lastFetchTime' = flights.pending[i].t0
          /\ flights'.pending = RemoveAt(flights.pending, i)

EntryWhole ==
    /\ (cachedData = NoCache) <=> (lastFetchTime = 0)
    /\ cachedData # NoCache =>
          \E body \in ConcBodies :
              parseCSVData(body).type = "return" /\ cachedData = ResultOf(body)

C23_CacheEntryReplacedAtomically ==
    /\ [][EntryStep]_vars
    /\ []EntryWhole

\* the entry was written by one of two overlapping fetches (the one issued
\* first): the other, issued later, is still in flight
C23_Witness ==
    /\ cachedData # NoCache
    /\ InFlight = 1
    /\ lastFetchTime < flights.pending[1].t0
    /\ ~flights.cleared

(***************************************************************************)
(* C24 as stated: concurrent fetchSheetData calls made while a fetch is    *)
(* already in flight do not each trigger an independent network fetch:     *)
(* overlapping callers that all find the cache empty or not fresh are      *)
(* coalesced so that at most one network request is outstanding at a time. *)
(***************************************************************************)
C24_Original == InFlight <= 1

(***************************************************************************)
(* C24 as the code has it: calls are not coalesced; every fetchSheetData   *)
(* call that finds the cache empty or not fresh issues a network request   *)
(* of its own, also while the request of another call is in flight, and a  *)
(* call that finds the cache fresh issues none.                            *)
(***************************************************************************)
C24_EveryCallOffFreshCacheFetches ==
    Started => (LastCall.fetched <=> ~LastFoundFresh)

\* a second request was issued while the first was outstanding
C24_Witness ==
    /\ Started
    /\ LastCall.inFlight0 = 1 /\ LastCall.fetched
    /\ InFlight = 2

(***************************************************************************)
(* C27: the cache timestamp is the time of the last successful fetch:      *)
(* across any interleaving of overlapping fetchSheetData calls             *)
(* lastFetchTime never decreases (except by clearCache resetting it), and  *)
(* the cached records are those of the most recently completed successful  *)
(* fetch.                                                                  *)
(***************************************************************************)
TimestampStep ==
    /\ lastFetchTime' >= lastFetchTime \/ CacheCleared'
    /\ cachedData' # cachedData =>
          \/ CacheCleared'
          \/ parseCSVData(sheet).type = "return" /\ cachedData' = ResultOf(sheet)

C27_TimestampNeverDecreases == [][TimestampStep]_vars

====
